---- MODULE Spec2Model ----
(***************************************************************************)
(* Model of ic3_data_ext/ext_boost.cpp: restructure_pulsemap, the          *)
(* boost::python function that flattens an I3RecoPulseSeriesMap into       *)
(* (charges, times, dom_times_dict, dom_charges_dict).                     *)
(*                                                                         *)
(* Every activation of the function has its own frame: the argument        *)
(* object, the four output containers, the two per-DOM lists, the map      *)
(* iterator and the inner index.  The frames are functions over the set    *)
(* of activations, so that activations whose steps interleave are part of  *)
(* the state space.                                                        *)
(***************************************************************************)
EXTENDS Integers, Sequences, FiniteSets, TLC

(* ---------------------------- bounds ----------------------------------- *)
\* OMKeys of a single activation are 1..NumKeys
NumKeys == 2
\* longest pulse series of a single activation
MaxPulses == 2
\* charges are 1..MaxCharge, times are 1..MaxTime
MaxCharge == 2
MaxTime == 2
\* the same two bounds for two activations that run side by side
PairKeys == 1
PairPulses == 1

CallSites == {"a", "b"}

VARIABLES pulse_map_obj, pc, error, it, i, charges, times, dom_times_dict,
          dom_charges_dict, dom_charges, dom_times, result

vars == <<pulse_map_obj, pc, error, it, i, charges, times, dom_times_dict,
          dom_charges_dict, dom_charges, dom_times, result>>

(* ---------------------------- data ------------------------------------- *)
\* I3RecoPulse, as far as the function reads it: a charge and a time
I3RecoPulse == [charge : 1..MaxCharge, time : 1..MaxTime]

GetChargeAsTime(p) == p.time
GetCharge(p) == p.charge

GetTime(p) == p.time

SeqsUpTo(S, n) == UNION {[1..m -> S] : m \in 0..n}

\* the subsequence of s at the (ascending) positions idx
RECURSIVE Pick(_, _)
Pick(s, idx) ==
    IF idx = {} THEN <<>>
    ELSE LET m == CHOOSE x \in idx : \A y \in idx : x <= y
         IN  <<s[m]>> \o Pick(s, idx \ {m})

\* An I3RecoPulseSeriesMap is a std::map: its entries are stored, and
\* iterated, in strictly ascending key order, and no key occurs twice.
PulseSeriesMaps(nk, np) ==
    UNION { { Pick([k \in 1..nk |-> [first |-> k, second |-> f[k]]], ks)
              : f \in [1..nk -> SeqsUpTo(I3RecoPulse, np)] }
            : ks \in SUBSET (1..nk) }

\* A python object handed to the function: its type and, for a pulse map,
\* the entries of the wrapped C++ map (an object of another type wraps none).
PyMap(m) == [type |-> "I3RecoPulseSeriesMap", items |-> m]
PyOther == {[type |-> "float", items |-> <<>>], [type |-> "dict", items |-> <<>>]}

Args(nk, np) == {PyMap(m) : m \in PulseSeriesMaps(nk, np)} \cup PyOther

\* boost::python::extract<I3RecoPulseSeriesMap&> succeeds only on an object
\* that wraps an I3RecoPulseSeriesMap
ExtractAny(obj) == TRUE
ExtractOk(obj) == obj.type = "I3RecoPulseSeriesMap"

Active == DOMAIN pc

\* the map the reference pulse_map of activation c is bound to
pulse_map(c) == pulse_map_obj[c].items

(* ---------------------------- containers ------------------------------- *)
\* a default-constructed boost::python::list of activation c
StaticList(c) ==
    IF Active \ {c} = {} THEN <<>>
    ELSE charges[CHOOSE d \in Active \ {c} : TRUE]
NewList(c) == <<>>

\* a default-constructed boost::python::dict
NewDict == [k \in {} |-> <<>>]

\* list.append(x)
ListAppend(l, x) == Append(l, x)

\* list.extend(other)
ListExtendFront(l, other) == other \o l
ListExtendNested(l, other) == Append(l, other)
ListExtend(l, other) == l \o other

\* dict[key] = value
DictSetReplace(d, key, value) == [k \in {key} |-> value]
DictSetNonEmpty(d, key, value) ==
    IF value = <<>> THEN d
    ELSE [k \in DOMAIN d \cup {key} |-> IF k = key THEN value ELSE d[k]]
DictSet(d, key, value) ==
    [k \in DOMAIN d \cup {key} |-> IF k = key THEN value ELSE d[k]]

\* boost::python::make_tuple of the four outputs
MakeTupleOrNone(c, t, dt, dc) == IF dt = NewDict THEN <<>> ELSE <<c, t, dt, dc>>
MakeTuple(c, t, dt, dc) == <<c, t, dt, dc>>

\* the condition of the inner for loop
InnerCondInclusive(idx, size) == idx <= size
InnerCond(idx, size) == idx < size

(* ---------------------------- initial states --------------------------- *)
Frames(S, A) ==
    /\ pulse_map_obj \in [S -> A]
    /\ pc = [c \in S |-> "call"]
    /\ error = [c \in S |-> "none"]
    /\ it = [c \in S |-> 0]
    /\ i = [c \in S |-> 0]
    /\ charges = [c \in S |-> <<>>]
    /\ times = [c \in S |-> <<>>]
    /\ dom_times_dict = [c \in S |-> NewDict]
    /\ dom_charges_dict = [c \in S |-> NewDict]
    /\ dom_charges = [c \in S |-> <<>>]
    /\ dom_times = [c \in S |-> <<>>]
    /\ result = [c \in S |-> <<>>]

\* one activation on any argument, or two side by side on small arguments
Init ==
    \/ Frames({"a"}, Args(NumKeys, MaxPulses))
    \/ Frames(CallSites, Args(PairKeys, PairPulses))

(* ---------------------------- steps ------------------------------------ *)
\* lines 24-29: bind the reference, or throw; construct the four outputs
Extract(c) ==
    /\ pc[c] = "call"
    /\ IF ExtractOk(pulse_map_obj[c])
       THEN /\ pc' = [pc EXCEPT ![c] = "outer"]
            /\ charges' = [charges EXCEPT ![c] = NewList(c)]
            /\ times' = [times EXCEPT ![c] = <<>>]
            /\ dom_times_dict' = [dom_times_dict EXCEPT ![c] = NewDict]
            /\ dom_charges_dict' = [dom_charges_dict EXCEPT ![c] = NewDict]
            /\ it' = [it EXCEPT ![c] = 1]
            /\ error' = error
       ELSE /\ pc' = [pc EXCEPT ![c] = "raised"]
            /\ error' = [error EXCEPT ![c] = "TypeError"]
            /\ UNCHANGED <<charges, times, dom_times_dict, dom_charges_dict, it>>
    /\ UNCHANGED <<pulse_map_obj, i, dom_charges, dom_times, result>>

\* lines 31-34: the range-for takes the next entry of the map and
\* constructs its two lists
OuterEnter(c) ==
    /\ pc[c] = "outer"
    /\ it[c] <= Len(pulse_map(c))
    /\ pc' = [pc EXCEPT ![c] = "inner"]
    /\ dom_charges' = [dom_charges EXCEPT ![c] = <<>>]
    /\ dom_times' = [dom_times EXCEPT ![c] = <<>>]
    /\ i' = [i EXCEPT ![c] = 0]
    /\ UNCHANGED <<pulse_map_obj, error, it, charges, times, dom_times_dict,
                   dom_charges_dict, result>>

InnerStepErasing(c) ==
    /\ pc[c] = "inner"
    /\ LET pulses == pulse_map(c)[it[c]].second
       IN  /\ pulses # <<>>
           /\ dom_charges' = [dom_charges EXCEPT ![c] = Append(@, Head(pulses).charge)]
           /\ dom_times' = [dom_times EXCEPT ![c] = Append(@, Head(pulses).time)]
           /\ pulse_map_obj' = [pulse_map_obj EXCEPT
                  ![c].items[it[c]].second = Tail(pulses)]
    /\ UNCHANGED <<pc, error, i, it, charges, times, dom_times_dict,
                   dom_charges_dict, result>>

\* lines 34-36: one pass of the inner loop; vector::at throws
\* std::out_of_range on an index that is not below size()
InnerStep(c) ==
    /\ pc[c] = "inner"
    /\ LET pulses == pulse_map(c)[it[c]].second
       IN  /\ InnerCond(i[c], Len(pulses))
           /\ IF i[c] < Len(pulses)
              THEN /\ dom_charges' = [dom_charges EXCEPT
                          ![c] = ListAppend(@, GetCharge(pulses[i[c] + 1]))]
                   /\ dom_times' = [dom_times EXCEPT
                          ![c] = ListAppend(@, GetTime(pulses[i[c] + 1]))]
                   /\ i' = [i EXCEPT ![c] = @ + 1]
                   /\ UNCHANGED <<pc, error>>
              ELSE /\ pc' = [pc EXCEPT ![c] = "raised"]
                   /\ error' = [error EXCEPT ![c] = "out_of_range"]
                   /\ UNCHANGED <<dom_charges, dom_times, i>>
    /\ UNCHANGED <<pulse_map_obj, it, charges, times, dom_times_dict,
                   dom_charges_dict, result>>

\* lines 34, 38-42: the inner loop ends; the two lists are stored under the
\* key and appended to the flat lists, and the iterator advances
StoreDom(c) ==
    /\ pc[c] = "inner"
    /\ LET dom_pulses == pulse_map(c)[it[c]]
       IN  /\ ~InnerCond(i[c], Len(dom_pulses.second))
           /\ dom_times_dict' = [dom_times_dict EXCEPT
                  ![c] = DictSet(@, dom_pulses.first, dom_times[c])]
           /\ dom_charges_dict' = [dom_charges_dict EXCEPT
                  ![c] = DictSet(@, dom_pulses.first, dom_charges[c])]
           /\ charges' = [charges EXCEPT ![c] = ListExtend(@, dom_charges[c])]
           /\ times' = [times EXCEPT ![c] = ListExtend(@, dom_times[c])]
    /\ it' = [it EXCEPT ![c] = @ + 1]
    /\ pc' = [pc EXCEPT ![c] = "outer"]
    /\ UNCHANGED <<pulse_map_obj, error, i, dom_charges, dom_times, result>>

\* lines 31, 49: the iterator is at end(); the tuple is built and returned
Return(c) ==
    /\ pc[c] = "outer"
    /\ it[c] > Len(pulse_map(c))
    /\ result' = [result EXCEPT ![c] = MakeTuple(charges[c], times[c],
                                        dom_times_dict[c], dom_charges_dict[c])]
    /\ pc' = [pc EXCEPT ![c] = "returned"]
    /\ UNCHANGED <<pulse_map_obj, error, it, i, charges, times, dom_times_dict,
                   dom_charges_dict, dom_charges, dom_times>>

Next ==
    \/ \E c \in Active : Extract(c)
    \/ \E c \in Active : OuterEnter(c)
    \/ \E c \in Active : InnerStep(c)
    \/ \E c \in Active : StoreDom(c)
    \/ \E c \in Active : Return(c)

Spec == Init /\ [][Next]_vars

\* the steps of one activation
Step(c) ==
    /\ c \in Active
    /\ (Extract(c) \/ OuterEnter(c) \/ InnerStep(c) \/ StoreDom(c) \/ Return(c))

\* A call is synchronous and never blocks: an activation that can take a
\* step eventually takes it.
FairSpec == Spec /\ \A c \in CallSites : WF_vars(Step(c))

(* ---------------------------- properties ------------------------------- *)
Returned(c) == pc[c] = "returned"
IsMap(c) == pulse_map_obj[c].type = "I3RecoPulseSeriesMap"
InputMap(c) == pulse_map_obj[c].items
KeysOf(m) == {m[j].first : j \in 1..Len(m)}
ChargesOf(ps) == [n \in 1..Len(ps) |-> ps[n].charge]
TimesOf(ps) == [n \in 1..Len(ps) |-> ps[n].time]

\* the values of d under the keys of m, concatenated in the order of m
RECURSIVE FlatPerKey(_, _)
FlatPerKey(m, d) ==
    IF m = <<>> THEN <<>> ELSE d[Head(m).first] \o FlatPerKey(Tail(m), d)

\* all pulses of m, in the order of m
RECURSIVE AllPulses(_)
AllPulses(m) ==
    IF m = <<>> THEN <<>> ELSE Head(m).second \o AllPulses(Tail(m))

RECURSIVE TotalLen(_, _)
TotalLen(d, ks) ==
    IF ks = {} THEN 0
    ELSE LET k == CHOOSE x \in ks : TRUE
         IN  Len(d[k]) + TotalLen(d, ks \ {k})

WithoutEntry(m, j) == SubSeq(m, 1, j - 1) \o SubSeq(m, j + 1, Len(m))

\* C1: the returned flat charges are the per-key charges concatenated over
\* the keys in the iteration order of the input map, and the flat times are
\* the per-key times concatenated in the same order.
C1_FlatIsConcatenation ==
    \A c \in Active : Returned(c) =>
        /\ result[c][1] = FlatPerKey(InputMap(c), result[c][4])
        /\ result[c][2] = FlatPerKey(InputMap(c), result[c][3])

C1_Witness ==
    \E c \in Active :
        /\ Returned(c)
        /\ Len(InputMap(c)) = 2
        /\ Len(InputMap(c)[1].second) = 2
        /\ Len(InputMap(c)[2].second) = 1
        /\ InputMap(c)[1].second[1].charge # InputMap(c)[2].second[1].charge
        /\ InputMap(c)[1].second[2].time # InputMap(c)[2].second[1].time

\* C2: for every key k of the input and every index n, the third component
\* holds at [k][n] the time and the fourth at [k][n] the charge of pulse n
\* of k, and both per-key lists are as long as the pulse series of k.
C2_PerKeyPulseForPulse ==
    \A c \in Active : Returned(c) =>
        \A j \in 1..Len(InputMap(c)) :
            LET k == InputMap(c)[j].first
                ps == InputMap(c)[j].second
            IN  /\ k \in DOMAIN result[c][3]
                /\ k \in DOMAIN result[c][4]
                /\ Len(result[c][3][k]) = Len(ps)
                /\ Len(result[c][4][k]) = Len(ps)
                /\ \A n \in 1..Len(ps) :
                       /\ result[c][3][k][n] = ps[n].time
                       /\ result[c][4][k][n] = ps[n].charge

C2_Witness ==
    \E c \in Active :
        /\ Returned(c)
        /\ \E j \in 1..Len(InputMap(c)) :
               LET ps == InputMap(c)[j].second
               IN  /\ Len(ps) = 2
                   /\ ps[1].charge # ps[1].time
                   /\ ps[1].charge # ps[2].charge
                   /\ ps[1].time # ps[2].time

\* C3: the returned flat charges and flat times have the same length, which
\* is the sum of the lengths of the per-key charges lists and the number of
\* pulses of the input.
C3_LengthIdentity ==
    \A c \in Active : Returned(c) =>
        /\ Len(result[c][1]) = Len(result[c][2])
        /\ Len(result[c][1]) = TotalLen(result[c][4], DOMAIN result[c][4])
        /\ Len(result[c][1]) = Len(AllPulses(InputMap(c)))

C3_Witness ==
    \E c \in Active :
        /\ Returned(c)
        /\ Len(InputMap(c)) = 2
        /\ Len(InputMap(c)[1].second) # Len(InputMap(c)[2].second)
        /\ Len(result[c][1]) = 3

\* C4: a key of the input with zero pulses is in both per-key maps with an
\* empty list, and the flat lists are those of the input without that key.
C4_EmptyKeyKept ==
    \A c \in Active : Returned(c) =>
        \A j \in 1..Len(InputMap(c)) :
            InputMap(c)[j].second = <<>> =>
                LET k == InputMap(c)[j].first
                    rest == AllPulses(WithoutEntry(InputMap(c), j))
                IN  /\ k \in DOMAIN result[c][3]
                    /\ k \in DOMAIN result[c][4]
                    /\ result[c][3][k] = <<>>
                    /\ result[c][4][k] = <<>>
                    /\ result[c][1] = ChargesOf(rest)
                    /\ result[c][2] = TimesOf(rest)

C4_Witness ==
    \E c \in Active :
        /\ Returned(c)
        /\ Len(InputMap(c)) = 2
        /\ InputMap(c)[1].second = <<>>
        /\ InputMap(c)[2].second # <<>>

\* C5: a call on an empty pulse map returns four empty outputs.
C5_EmptyMap ==
    \A c \in Active :
        (Returned(c) /\ InputMap(c) = <<>>) =>
            /\ Len(result[c]) = 4
            /\ result[c][1] = <<>>
            /\ result[c][2] = <<>>
            /\ DOMAIN result[c][3] = {}
            /\ DOMAIN result[c][4] = {}

C5_Witness ==
    \E c \in Active : Returned(c) /\ IsMap(c) /\ InputMap(c) = <<>>

\* C6: a call on an argument that is not a pulse map never gets past the
\* extraction: it ends in a TypeError with no output constructed or filled
\* and no result.
C6_TypeError ==
    \A c \in Active : ~IsMap(c) =>
        /\ pc[c] \in {"call", "raised"}
        /\ pc[c] = "raised" => error[c] = "TypeError"
        /\ result[c] = <<>>
        /\ charges[c] = <<>> /\ times[c] = <<>>
        /\ DOMAIN dom_times_dict[c] = {} /\ DOMAIN dom_charges_dict[c] = {}

C6_Witness ==
    \E c \in Active :
        /\ pulse_map_obj[c].type = "float"
        /\ pc[c] = "raised"
        /\ error[c] = "TypeError"

\* C7: no step of a call changes the argument: the map keeps its keys,
\* their order, and every pulse series.
C7_InputUnchanged == [][pulse_map_obj' = pulse_map_obj]_vars

C7_Witness ==
    \E c \in Active :
        /\ Returned(c)
        /\ Len(InputMap(c)) = 2
        /\ \A j \in 1..2 : Len(InputMap(c)[j].second) = 2

C9_Terminates ==
    /\ [](\A c \in Active : IsMap(c) =>
            /\ error[c] = "none"
            /\ pc[c] \in {"outer", "inner"} => it[c] \in 1..(Len(InputMap(c)) + 1)
            /\ pc[c] = "inner" => i[c] \in 0..Len(InputMap(c)[it[c]].second))
    /\ <>(\A c \in Active : IsMap(c) => Returned(c))

C9_Witness ==
    \E c \in Active :
        /\ Returned(c)
        /\ error[c] = "none"
        /\ it[c] = 3
        /\ i[c] = 2

\* C10: the key sets of the returned per-key times map and per-key charges
\* map are both the key set of the input map.
C10_KeySets ==
    \A c \in Active : Returned(c) =>
        /\ DOMAIN result[c][3] = KeysOf(InputMap(c))
        /\ DOMAIN result[c][4] = KeysOf(InputMap(c))

C10_Witness ==
    \E c \in Active :
        /\ Returned(c)
        /\ KeysOf(InputMap(c)) = {1, 2}
        /\ DOMAIN result[c][3] = {1, 2}

====
